---------------------------- MODULE Spec2Model ----------------------------
(***************************************************************************)
(* GPA calculator: src/gpa-calculator.py (the current script) and          *)
(* src/gpa_calculator.py (the earlier variant of the same script).         *)
(*                                                                         *)
(* The state is what a run of the scripts holds after parse_courses: the   *)
(* course dicts (heap), the list of them (courses), and what each call     *)
(* returned or printed.  Course dicts are objects: a list holds their      *)
(* identities, so that a list built by analyze_grades shares its dicts     *)
(* with the caller's list, as in Python.                                   *)
(*                                                                         *)
(* Grade points are Python floats.  A float is modelled exactly, as the    *)
(* IEEE-754 binary64 value it is: the triple <<h, m, l>> stands for the    *)
(* number (h * B^2 + m * B + l) * 2^-58 with B = 2^22, and every float     *)
(* operation rounds its exact result to 53 significant bits, ties to even. *)
(* The representation is exact for values in [2^-5, 2^8) and 0, which      *)
(* covers every value the scripts compute while the total credits of a     *)
(* list stay below 32.                                                     *)
(***************************************************************************)
EXTENDS Integers, Sequences, FiniteSets

\* ------------------------------------------------------------------ bounds
\* Longest course list of the program runs (Spec).
MaxLen == 2
\* Largest credits value of a course.
MaxCredits == 2
\* Longest course list of the lists over the small grade sample (SpecLong).
MaxLongLen == 3
\* Largest credits value in those lists.
MaxLongCredits == 1
\* Longest course list of the lists over the whole grade table (SpecAlphabet).
MaxAlphabetLen == 1

\* ------------------------------------------------------- binary64 floats
B == 2^22

Zero == <<0, 0, 0>>

\* Limbs back into 0 .. B-1 (\div and % round towards minus infinity).
Carry(h, m, l) ==
    LET m1 == m + (l \div B)
    IN  <<h + (m1 \div B), m1 % B, l % B>>

\* The number of low bits a value with high limb h has beyond 53 significant ones.
RECURSIVE DropBits(_, _)
DropBits(h, q) == IF h < 2^(9 + q) THEN q ELSE DropBits(h, q + 1)

\* Round to nearest, ties to even; sticky: the exact value has bits below l.
Round(x, sticky) ==
    IF x[1] < 2^9 THEN x
    ELSE LET q    == DropBits(x[1], 1)
             unit == 2^q
             r    == x[3] % unit
             half == unit \div 2
             odd  == (x[3] \div unit) % 2 = 1
             up   == r > half \/ (r = half /\ (sticky \/ odd))
         IN  Carry(x[1], x[2], (x[3] - r) + (IF up THEN unit ELSE 0))

\* float + float
FAdd(x, y) == Round(Carry(x[1] + y[1], x[2] + y[2], x[3] + y[3]), FALSE)

\* float * int (the int converts to a float exactly)
FMulInt(x, k) == Round(Carry(x[1] * k, x[2] * k, x[3] * k), FALSE)

\* float / int, for d > 0
FDivInt(x, d) ==
    LET t1 == (x[1] % d) * B + x[2]
        t2 == (t1 % d) * B + x[3]
    IN  Round(<<x[1] \div d, t1 \div d, t2 \div d>>, t2 % d # 0)

\* float < float
FLess(x, y) ==
    \/ x[1] < y[1]
    \/ x[1] = y[1] /\ x[2] < y[2]
    \/ x[1] = y[1] /\ x[2] = y[2] /\ x[3] < y[3]

\* float - float: a sign and a magnitude
FSub(x, y) ==
    IF FLess(x, y)
    THEN [neg |-> TRUE,
          mag |-> Round(Carry(y[1] - x[1], y[2] - x[2], y[3] - x[3]), FALSE)]
    ELSE [neg |-> FALSE,
          mag |-> Round(Carry(x[1] - y[1], x[2] - y[2], x[3] - y[3]), FALSE)]

\* ------------------------------------------------------ program constants
\* The float each literal of the table denotes: 3.7 is 0x1.d99999999999ap+1.
grade_points ==
    [g \in {"A", "A-", "B+", "B", "B-", "C+", "C", "C-", "D+", "D",
            "E", "F", "WH", "NC", "CM"} |->
        CASE g = "A"  -> <<65536, 0, 0>>
          [] g = "A-" -> <<60620, 3355443, 838912>>
          [] g = "B+" -> <<54067, 838860, 3355392>>
          [] g = "B"  -> <<49152, 0, 0>>
          [] g = "B-" -> <<44236, 3355443, 838912>>
          [] g = "C+" -> <<37683, 838860, 3355392>>
          [] g = "C"  -> <<32768, 0, 0>>
          [] g = "C-" -> <<27852, 3355443, 838848>>
          [] g = "D+" -> <<21299, 838860, 3355456>>
          [] g = "D"  -> <<16384, 0, 0>>
          [] OTHER    -> Zero]

\* grade_points.get(grade, 0)
grade_points_get(grade) ==
    IF grade \in DOMAIN grade_points THEN grade_points[grade] ELSE Zero

grade_points_should_retake == {"D", "D+", "E", "F", "WH", "NC"}

\* A changed set: CM (completed module) taken for a failing grade.
grade_points_must_retake_with_CM == {"F", "E", "WH", "NC", "CM"}

grade_points_must_retake == {"F", "E", "WH", "NC"}

\* The literal lists of analyze_grades in gpa_calculator.py.
legacy_must_retake == {"F", "E", "WH"}

legacy_should_retake == {"D", "D+", "E", "F", "WH"}


\* --------------------------------------------------------------- helpers
Range(s) == {s[i] : i \in DOMAIN s}

\* The dicts a list of identities holds, in list order.
Deref(h, ids) == [i \in 1..Len(ids) |-> h[ids[i]]]

RECURSIVE sum_credits(_, _)
sum_credits(cs, i) ==
    IF i > Len(cs) THEN 0 ELSE cs[i].credits + sum_credits(cs, i + 1)

\* ---------------------------------------------------------- calculate_gpa
\* A changed loop: the credits of an excluded course still count in total_credits.
RECURSIVE gpa_loop_counting_excluded(_, _, _, _, _)
gpa_loop_counting_excluded(cs, exclude_codes, i, total_grade_points, total_credits) ==
    IF i > Len(cs) THEN <<total_grade_points, total_credits>>
    ELSE IF exclude_codes # {} /\ cs[i].code \in exclude_codes
         THEN gpa_loop_counting_excluded(cs, exclude_codes, i + 1, total_grade_points,
                                         total_credits + cs[i].credits)
         ELSE gpa_loop_counting_excluded(cs, exclude_codes, i + 1,
                       FAdd(total_grade_points,
                            FMulInt(grade_points_get(cs[i].result), cs[i].credits)),
                       total_credits + cs[i].credits)

\* A changed loop: break in place of continue, the loop ends at the first
\* excluded course.
RECURSIVE gpa_loop_breaking(_, _, _, _, _)
gpa_loop_breaking(cs, exclude_codes, i, total_grade_points, total_credits) ==
    IF i > Len(cs) THEN <<total_grade_points, total_credits>>
    ELSE IF exclude_codes # {} /\ cs[i].code \in exclude_codes
         THEN <<total_grade_points, total_credits>>
         ELSE gpa_loop_breaking(cs, exclude_codes, i + 1,
                       FAdd(total_grade_points,
                            FMulInt(grade_points_get(cs[i].result), cs[i].credits)),
                       total_credits + cs[i].credits)

\* The for loop: i is the position, the last two are the running totals.
RECURSIVE gpa_loop(_, _, _, _, _)
gpa_loop(cs, exclude_codes, i, total_grade_points, total_credits) ==
    IF i > Len(cs) THEN <<total_grade_points, total_credits>>
    ELSE IF exclude_codes # {} /\ cs[i].code \in exclude_codes
         THEN gpa_loop(cs, exclude_codes, i + 1, total_grade_points, total_credits)
         ELSE gpa_loop(cs, exclude_codes, i + 1,
                       FAdd(total_grade_points,
                            FMulInt(grade_points_get(cs[i].result), cs[i].credits)),
                       total_credits + cs[i].credits)

\* exclude_codes = {} stands for None and for the empty list alike.
calculate_gpa(cs, exclude_codes) ==
    LET t == gpa_loop(cs, exclude_codes, 1, Zero, 0)
    IN  IF t[2] > 0 THEN FDivInt(t[1], t[2]) ELSE Zero

\* ------------------------------------------------------------- list.sort
\* key(a) < key(b) for key = (-credits, grade_points.get(result, 0))
key_less(h, a, b) ==
    \/ h[a].credits > h[b].credits
    \/ /\ h[a].credits = h[b].credits
       /\ FLess(grade_points_get(h[a].result), grade_points_get(h[b].result))

\* A changed insertion: x goes before the first element that does not compare
\* less, so equal keys end in reverse input order.
sort_insert_unstable(h, sorted, x) ==
    LET later == {i \in 1..Len(sorted) : ~key_less(h, sorted[i], x)}
        p     == IF later = {} THEN Len(sorted) + 1
                 ELSE CHOOSE i \in later : \A j \in later : i <= j
    IN  SubSeq(sorted, 1, p - 1) \o <<x>> \o SubSeq(sorted, p, Len(sorted))

\* x goes after every element that does not compare greater (the sort is stable).
sort_insert(h, sorted, x) ==
    LET later == {i \in 1..Len(sorted) : key_less(h, x, sorted[i])}
        p     == IF later = {} THEN Len(sorted) + 1
                 ELSE CHOOSE i \in later : \A j \in later : i <= j
    IN  SubSeq(sorted, 1, p - 1) \o <<x>> \o SubSeq(sorted, p, Len(sorted))

RECURSIVE sort_from(_, _, _, _)
sort_from(h, ids, i, sorted) ==
    IF i > Len(ids) THEN sorted
    ELSE sort_from(h, ids, i + 1, sort_insert(h, sorted, ids[i]))

sort_retake(h, ids) == sort_from(h, ids, 1, <<>>)

\* ---------------------------------------------------------- analyze_grades
\* [c for c in courses if c["result"] in grades]: a new list of the same dicts.
select_grades(h, cs, grades) == SelectSeq(cs, LAMBDA id : h[id].result \in grades)

\* A changed construction: c["result"] = "D" written into the caller's dicts.
build_hypothetical_in_place(h, cs, must_retake) ==
    LET failed_codes == {h[id].code : id \in Range(must_retake)}
        kept         == SelectSeq(cs, LAMBDA id : h[id].code \notin failed_codes)
        written      == [id \in DOMAIN h |->
                            IF id \in Range(must_retake)
                            THEN [h[id] EXCEPT !.result = "D"] ELSE h[id]]
    IN  [heap |-> written, list |-> Deref(h, kept) \o Deref(written, must_retake)]

\* A changed construction: the retaken courses keep their grade.
build_hypothetical_same_grade(h, cs, must_retake) ==
    LET failed_codes == {h[id].code : id \in Range(must_retake)}
        kept         == SelectSeq(cs, LAMBDA id : h[id].code \notin failed_codes)
    IN  [heap |-> h, list |-> Deref(h, kept) \o Deref(h, must_retake)]

\* The list handed to calculate_gpa for gpa_after_retaking_failed, and the heap
\* left behind: the retaken courses are new dicts, no dict of h is written.
build_hypothetical(h, cs, must_retake) ==
    LET failed_codes == {h[id].code : id \in Range(must_retake)}
        kept         == SelectSeq(cs, LAMBDA id : h[id].code \notin failed_codes)
        retaken      == [i \in 1..Len(must_retake) |->
                            [code    |-> h[must_retake[i]].code,
                             credits |-> h[must_retake[i]].credits,
                             result  |-> "D"]]
    IN  [heap |-> h, list |-> Deref(h, kept) \o retaken]

analyze_grades(h, cs) ==
    LET must_retake   == sort_retake(h, select_grades(h, cs, grade_points_must_retake))
        should_retake == sort_retake(h, select_grades(h, cs, grade_points_should_retake))
        current_gpa   == calculate_gpa(Deref(h, cs), {})
        hyp           == build_hypothetical(h, cs, must_retake)
    IN  [heap |-> hyp.heap,
         courses |-> cs,
         hypothetical |-> hyp.list,
         result |-> [current_gpa |-> current_gpa,
                     gpa_after_retaking_failed |-> calculate_gpa(hyp.list, {}),
                     must_retake |-> must_retake,
                     should_retake |-> should_retake]]

\* ------------------------------------------- print_recommended_retake_courses
\* One pass of the for loop, for the course dict id; raised: the division by
\* total_credits raised ZeroDivisionError.
recommend_row(h, cs, current_gpa, id) ==
    LET new_gpa       == calculate_gpa(Deref(h, cs), {h[id].code})
        total_credits == sum_credits(Deref(h, cs), 1)
        numerator     == FAdd(FMulInt(new_gpa, total_credits - h[id].credits),
                              FMulInt(grade_points["D"], h[id].credits))
    IN  IF total_credits = 0
        THEN [raised |-> TRUE, course |-> id, potential_gpa |-> Zero,
              improvement |-> FSub(Zero, Zero)]
        ELSE LET potential_gpa == FDivInt(numerator, total_credits)
             IN  [raised |-> FALSE, course |-> id, potential_gpa |-> potential_gpa,
                  improvement |-> FSub(potential_gpa, current_gpa)]

\* --------------------------------------- analyze_grades of gpa_calculator.py
\* One pass of its for loop over should_retake[:10].
legacy_improvement(h, cs, id) ==
    LET current_gpa   == calculate_gpa(Deref(h, cs), {})
        new_gpa       == calculate_gpa(Deref(h, cs), {h[id].code})
        total_credits == sum_credits(Deref(h, cs), 1)
        numerator     == FAdd(FMulInt(new_gpa, total_credits - h[id].credits),
                              FMulInt(grade_points["A"], h[id].credits))
    IN  FSub(FDivInt(numerator, total_credits), current_gpa)

legacy_analyze_grades(h, cs) ==
    LET must_retake   == sort_retake(h, select_grades(h, cs, legacy_must_retake))
        should_retake == sort_retake(h, select_grades(h, cs, legacy_should_retake))
        top           == SubSeq(should_retake, 1,
                                IF Len(should_retake) < 10 THEN Len(should_retake) ELSE 10)
        raised        == top # <<>> /\ sum_credits(Deref(h, cs), 1) = 0
    IN  [must_retake |-> must_retake,
         should_retake |-> should_retake,
         raised |-> raised,
         improvements |-> IF raised THEN <<>>
                          ELSE [i \in 1..Len(top) |-> legacy_improvement(h, cs, top[i])]]

\* ------------------------------------------------------------------ state
VARIABLES
    heap,          \* the course dicts parse_courses built: heap[id] is the dict id
    courses,       \* the caller's list: the identities of its dicts, in file order
    pc,            \* where the run stands
    result,        \* what analyze_grades returned
    hypothetical,  \* the list analyze_grades handed to calculate_gpa at line 164
    delta,         \* potential_gpa - current_gpa, printed behind a "+" at line 191
    rows,          \* what print_recommended_retake_courses printed, a row per course
    gpa_call,      \* a direct call of calculate_gpa: its exclude_codes and its value
    legacy         \* what analyze_grades of gpa_calculator.py built and printed

vars == <<heap, courses, pc, result, hypothetical, delta, rows, gpa_call, legacy>>

\* ----------------------------------------------------------------- inputs
Codes == <<"C1", "C2", "C3", "C4">>

AllGrades == DOMAIN grade_points \cup {"Z"}

GradeSample == {"A-", "D+", "D", "F", "Z"}

LongGrades == {"A-", "D+", "F"}

\* Course codes are opaque: only which courses share one matters.  When codes
\* may repeat the i-th course takes one of the first i names, otherwise the i-th.
CodesFor(i, repeat) == IF repeat THEN {Codes[j] : j \in 1..i} ELSE {Codes[i]}

\* What parse_courses appends: credits is int(credits) of a digit string or 0,
\* result is upper case.
RECURSIVE CourseHeaps(_, _, _, _)
CourseHeaps(n, repeat, maxCredits, grades) ==
    IF n = 0 THEN {<<>>}
    ELSE {Append(h, c) :
            h \in CourseHeaps(n - 1, repeat, maxCredits, grades),
            c \in [code : CodesFor(n, repeat), credits : 0..maxCredits, result : grades]}

RECURSIVE Ids(_)
Ids(n) == IF n = 0 THEN <<>> ELSE Append(Ids(n - 1), n)

ExcludeSets == SUBSET {Codes[1], Codes[2]}

NoResult ==
    [current_gpa |-> Zero, gpa_after_retaking_failed |-> Zero,
     must_retake |-> <<>>, should_retake |-> <<>>]

InitWith(heaps) ==
    /\ heap \in heaps
    /\ courses = Ids(Len(heap))
    /\ pc = "parsed"
    /\ result = NoResult
    /\ hypothetical = <<>>
    /\ delta = FSub(Zero, Zero)
    /\ rows = <<>>
    /\ gpa_call = [exclude_codes |-> {}, ret |-> Zero]
    /\ legacy = [must_retake |-> <<>>, should_retake |-> <<>>,
                 raised |-> FALSE, improvements |-> <<>>]

\* Program runs: short lists over the grade sample, codes may repeat.
Init ==
    \E n \in 0..MaxLen : InitWith(CourseHeaps(n, TRUE, MaxCredits, GradeSample))

\* Longer lists of courses with distinct codes over three grades; the points of
\* A- and D+ are no binary fractions.
InitLong ==
    \E n \in 0..MaxLongLen : InitWith(CourseHeaps(n, FALSE, MaxLongCredits, LongGrades))

\* The shortest lists over every grade of the table and one symbol outside it.
InitAlphabet ==
    \E n \in 0..MaxAlphabetLen :
        InitWith(CourseHeaps(n, TRUE, MaxCredits, AllGrades))

\* ---------------------------------------------------------------- actions
\* result = analyze_grades(courses); a caller may call it again.
AnalyzeGrades ==
    /\ pc \in {"parsed", "analyzed"}
    /\ LET r == analyze_grades(heap, courses)
       IN  /\ heap' = r.heap
           /\ courses' = r.courses
           /\ result' = r.result
           /\ hypothetical' = r.hypothetical
    /\ pc' = "analyzed"
    /\ UNCHANGED <<delta, rows, gpa_call, legacy>>

\* print_gpa_analysis up to the recommended courses: the two GPA lines and the
\* must-retake list.
PrintPotentialGpa ==
    /\ pc = "analyzed"
    /\ delta' = FSub(result.gpa_after_retaking_failed, result.current_gpa)
    /\ pc' = "recommending"
    /\ UNCHANGED <<heap, courses, result, hypothetical, rows, gpa_call, legacy>>

\* One pass of the loop of print_recommended_retake_courses; an uncaught
\* ZeroDivisionError ends the run.
PrintRecommendedRow ==
    /\ pc = "recommending"
    /\ Len(rows) < Len(result.should_retake)
    /\ LET row == recommend_row(heap, courses, result.current_gpa,
                                result.should_retake[Len(rows) + 1])
       IN  IF row.raised
           THEN pc' = "error" /\ rows' = rows
           ELSE pc' = pc /\ rows' = Append(rows, row)
    /\ UNCHANGED <<heap, courses, result, hypothetical, delta, gpa_call, legacy>>

\* The loop is over (or should_retake is empty): the script ends.
Finish ==
    /\ pc = "recommending"
    /\ Len(rows) = Len(result.should_retake)
    /\ pc' = "done"
    /\ UNCHANGED <<heap, courses, result, hypothetical, delta, rows, gpa_call, legacy>>

\* calculate_gpa(courses, exclude_codes) called on its own.
CallCalculateGpa ==
    /\ pc = "parsed"
    /\ \E ex \in ExcludeSets :
          gpa_call' = [exclude_codes |-> ex,
                       ret |-> calculate_gpa(Deref(heap, courses), ex)]
    /\ pc' = "called"
    /\ UNCHANGED <<heap, courses, result, hypothetical, delta, rows, legacy>>

\* analyze_grades(courses) of gpa_calculator.py, on the same list.
LegacyAnalyzeGrades ==
    /\ pc = "parsed"
    /\ legacy' = legacy_analyze_grades(heap, courses)
    /\ pc' = IF legacy'.raised THEN "legacy_error" ELSE "legacy_done"
    /\ UNCHANGED <<heap, courses, result, hypothetical, delta, rows, gpa_call>>

Next ==
    \/ AnalyzeGrades
    \/ PrintPotentialGpa
    \/ PrintRecommendedRow
    \/ Finish
    \/ CallCalculateGpa
    \/ LegacyAnalyzeGrades

Spec == Init /\ [][Next]_vars

SpecAlphabet == InitAlphabet /\ [][Next]_vars

SpecLong == InitLong /\ [][Next]_vars

\* ============================================================== properties
\* analyze_grades has returned.
Analyzed == pc \in {"analyzed", "recommending", "done", "error"}

\* analyze_grades of gpa_calculator.py has run (to its end or to its error).
LegacyRan == pc \in {"legacy_done", "legacy_error"}

\* The caller's dicts, in list order.
Input == Deref(heap, courses)

\* The grade-point value of a grade in tenths, as the table states it in decimal.
GradeTenths(g) ==
    CASE g = "A"  -> 40 [] g = "A-" -> 37 [] g = "B+" -> 33 [] g = "B"  -> 30
      [] g = "B-" -> 27 [] g = "C+" -> 23 [] g = "C"  -> 20 [] g = "C-" -> 17
      [] g = "D+" -> 13 [] g = "D"  -> 10 [] OTHER -> 0

\* How often x occurs in the sequence s.
Count(s, x) == Cardinality({i \in DOMAIN s : s[i] = x})

\* |x - y| <= t * 2^-58, for t < B
Within(x, y, t) ==
    LET d == FSub(x, y).mag IN d[1] = 0 /\ d[2] = 0 /\ d[3] <= t

\* ---- C1
Included(cs, ex) == SelectSeq(cs, LAMBDA c : c.code \notin ex)

RECURSIVE PointsFrom(_, _)
PointsFrom(cs, i) ==
    IF i = 0 THEN Zero
    ELSE FAdd(PointsFrom(cs, i - 1), FMulInt(grade_points_get(cs[i].result), cs[i].credits))

RECURSIVE TenthsFrom(_, _)
TenthsFrom(cs, i) ==
    IF i = 0 THEN 0 ELSE TenthsFrom(cs, i - 1) + cs[i].credits * GradeTenths(cs[i].result)

\* v is the quotient tenths / (10 * credits) up to the rounding of n float
\* additions and one division: |v - q| <= n * 2^-49.
NearQuotient(v, tenths, credits, n) ==
    LET k   == 10 * credits
        lhs == Carry(v[1] * k, v[2] * k, v[3] * k)
        rhs == <<tenths * 2^14, 0, 0>>
        d   == IF FLess(lhs, rhs)
               THEN Carry(rhs[1] - lhs[1], rhs[2] - lhs[2], rhs[3] - lhs[3])
               ELSE Carry(lhs[1] - rhs[1], lhs[2] - rhs[2], lhs[3] - rhs[3])
    IN  d[1] = 0 /\ d[2] = 0 /\ d[3] <= n * 2^9 * k

\* C1: calculate_gpa returns the sum of credits x gradePoint(grade) over the
\* courses whose code is not excluded, divided by the sum of their credits (a
\* grade outside the table counting 0 points at full credit weight): the float
\* quotient of the float sum taken in list order, which is the exact quotient up
\* to rounding; and exactly 0 when that credit sum is 0.
C1_GpaIsWeightedMean ==
    pc = "called" =>
        LET inc     == Included(Input, gpa_call.exclude_codes)
            credits == sum_credits(inc, 1)
        IN  /\ credits = 0 => gpa_call.ret = Zero
            /\ credits > 0 =>
                  /\ gpa_call.ret = FDivInt(PointsFrom(inc, Len(inc)), credits)
                  /\ NearQuotient(gpa_call.ret, TenthsFrom(inc, Len(inc)), credits, Len(inc))

\* A call that excluded a course with credits, kept one with credits, and
\* returned a GPA above 0.
C1_Witness ==
    /\ pc = "called"
    /\ \E i \in DOMAIN Input : Input[i].code \in gpa_call.exclude_codes /\ Input[i].credits > 0
    /\ \E i \in DOMAIN Input : Input[i].code \notin gpa_call.exclude_codes /\ Input[i].credits > 0
    /\ gpa_call.ret # Zero

\* ---- C2
\* list holds, once each, exactly the caller's dicts whose grade is in grades.
HoldsExactly(list, grades) ==
    /\ Range(list) \subseteq Range(courses)
    /\ \A id \in Range(courses) :
          Count(list, id) = IF heap[id].result \in grades THEN 1 ELSE 0

\* C2: in each of the two scripts, must-retake holds exactly the input courses
\* graded F, E, WH or NC and should-retake exactly those graded D, D+, E, F, WH
\* or NC; a course with any other grade is in neither, none is dropped or
\* duplicated.
C2_RetakeListsByGrade ==
    /\ Analyzed =>
          /\ HoldsExactly(result.must_retake, {"F", "E", "WH", "NC"})
          /\ HoldsExactly(result.should_retake, {"D", "D+", "E", "F", "WH", "NC"})
    /\ LegacyRan =>
          /\ HoldsExactly(legacy.must_retake, {"F", "E", "WH", "NC"})
          /\ HoldsExactly(legacy.should_retake, {"D", "D+", "E", "F", "WH", "NC"})

\* ---- C3
\* a comes before b in the order of the claim: credits descending, then
\* grade-point value ascending, then input order (identities are list positions).
Before(a, b) ==
    \/ heap[a].credits > heap[b].credits
    \/ /\ heap[a].credits = heap[b].credits
       /\ GradeTenths(heap[a].result) < GradeTenths(heap[b].result)
    \/ /\ heap[a].credits = heap[b].credits
       /\ GradeTenths(heap[a].result) = GradeTenths(heap[b].result)
       /\ a < b

InOrder(list) == \A i, j \in DOMAIN list : i < j => Before(list[i], list[j])

\* C3: must-retake and should-retake as returned by analyze_grades are ordered
\* by credits descending, then grade-point value ascending, and courses equal in
\* both keep their input order.
C3_RetakeListsOrdered ==
    Analyzed => InOrder(result.must_retake) /\ InOrder(result.should_retake)

\* The sort moved a course forward past an earlier one, and kept two courses
\* that are equal in credits and grade points in their input order.
C3_Witness ==
    /\ Analyzed
    /\ \E i, j \in DOMAIN result.should_retake :
          i < j /\ result.should_retake[i] > result.should_retake[j]
    /\ \E i, j \in DOMAIN result.should_retake :
          /\ i < j
          /\ heap[result.should_retake[i]].credits = heap[result.should_retake[j]].credits
          /\ GradeTenths(heap[result.should_retake[i]].result)
                = GradeTenths(heap[result.should_retake[j]].result)

\* ---- C4
\* The input with the grade of every removed course (one whose code is the code
\* of a must-retake course) replaced by D.
Retaken ==
    LET failed == {heap[id].code : id \in Range(result.must_retake)}
    IN  [i \in DOMAIN Input |->
            IF Input[i].code \in failed
            THEN [code |-> Input[i].code, credits |-> Input[i].credits, result |-> "D"]
            ELSE Input[i]]

\* C4: the hypothetical course set has exactly one record per input record, with
\* its code and credits, graded D if the input record was removed and as in the
\* input otherwise; so its total credits are the input's, and
\* gpa_after_retaking_failed is calculate_gpa of it.
C4_HypotheticalIsInputRetaken ==
    Analyzed =>
        /\ Len(hypothetical) = Len(Input)
        /\ \A r \in Range(hypothetical) \cup Range(Retaken) :
              Count(hypothetical, r) = Count(Retaken, r)
        /\ sum_credits(hypothetical, 1) = sum_credits(Input, 1)
        /\ result.gpa_after_retaking_failed = calculate_gpa(hypothetical, {})

\* ---- C5
\* The input with the grade of the one dict id replaced by D.
OneRetaken(id) ==
    [i \in DOMAIN courses |->
        IF courses[i] = id
        THEN [code |-> heap[id].code, credits |-> heap[id].credits, result |-> "D"]
        ELSE heap[courses[i]]]

\* C5: each potential GPA print_recommended_retake_courses computes (total
\* credits being above 0) is calculate_gpa of the input with exactly that one
\* course regraded D, and the improvement is negative for a D+ course with
\* credits.
C5_PotentialIsOneCourseRetaken ==
    \A i \in DOMAIN rows :
        /\ rows[i].potential_gpa = calculate_gpa(OneRetaken(rows[i].course), {})
        /\ (heap[rows[i].course].result = "D+" /\ heap[rows[i].course].credits > 0)
              => rows[i].improvement.neg

\* ---- C6
\* C6: on a non-empty course list with non-negative integer credits, running
\* calculate_gpa, analyze_grades and the improvement computation of every
\* should-retake course raises no error.
C6_NoErrorInCore == courses # <<>> => pc # "error"

\* ---- C7
\* C7: in both scripts every course of must-retake is also in should-retake.
C7_MustWithinShould ==
    /\ Analyzed => Range(result.must_retake) \subseteq Range(result.should_retake)
    /\ LegacyRan => Range(legacy.must_retake) \subseteq Range(legacy.should_retake)

\* analyze_grades returned a course in must-retake.
C7_Witness == Analyzed /\ result.must_retake # <<>>

\* ---- C8
\* C8: no call changes the caller's list or any of its dicts, and a second call
\* of analyze_grades returns what the first returned.
C8_InputUnchanged ==
    [][/\ heap' = heap
       /\ courses' = courses
       /\ (pc = "analyzed" /\ pc' = "analyzed") => result' = result]_vars

\* analyze_grades has sorted two must-retake courses into the reverse of their
\* input order and regraded them D in the hypothetical list.
C8_Witness ==
    /\ pc = "analyzed"
    /\ Len(result.must_retake) = 2
    /\ result.must_retake[1] > result.must_retake[2]
    /\ \E i \in DOMAIN hypothetical : hypothetical[i].result = "D"
    /\ \A id \in Range(courses) : heap[id].result # "D"

\* ---- C9
Orders(n) ==
    {p \in [1..n -> 1..n] : \A i, j \in 1..n : p[i] = p[j] => i = j}

\* calculate_gpa of the caller's list in the order p, with the call's exclusions.
GpaOfPermutation(p) ==
    calculate_gpa([i \in DOMAIN courses |-> heap[courses[p[i]]]], gpa_call.exclude_codes)

\* C9 as stated: calculate_gpa returns the same value on every permutation of
\* the list.
C9_SameOnEveryPermutation ==
    pc = "called" =>
        \A p \in Orders(Len(courses)) : GpaOfPermutation(p) = gpa_call.ret

\* C9 as amended: the values on a list of n courses and on a permutation of it
\* differ by at most n * 2^-49, and are the same for n <= 2.
C9_NearOnEveryPermutation ==
    pc = "called" =>
        \A p \in Orders(Len(courses)) :
            /\ Within(GpaOfPermutation(p), gpa_call.ret, Len(courses) * 2^9)
            /\ Len(courses) <= 2 => GpaOfPermutation(p) = gpa_call.ret

\* A call whose value differs from the value on a permutation of its list.
C9_Witness ==
    /\ pc = "called"
    /\ \E p \in Orders(Len(courses)) : GpaOfPermutation(p) # gpa_call.ret

\* ---- C10
DistinctCodes ==
    \A i, j \in DOMAIN Input : Input[i].code = Input[j].code => i = j

\* C10: with pairwise distinct codes, gpa_after_retaking_failed is at least
\* current_gpa, so the delta printed behind "+" is never negative, and the two
\* are equal exactly when no must-retake course has credits above 0.
C10_RetakingNeverLowers ==
    (Analyzed /\ DistinctCodes) =>
        /\ ~FLess(result.gpa_after_retaking_failed, result.current_gpa)
        /\ (result.gpa_after_retaking_failed = result.current_gpa)
              <=> (\A id \in Range(result.must_retake) : heap[id].credits = 0)
        /\ pc \in {"recommending", "done", "error"} => ~delta.neg

\* The delta was printed for a list whose must-retake course has credits, next
\* to a course that stays: the GPA rose.
C10_Witness ==
    /\ pc = "recommending"
    /\ DistinctCodes
    /\ \E id \in Range(result.must_retake) : heap[id].credits > 0
    /\ \E id \in Range(courses) : id \notin Range(result.must_retake) /\ heap[id].credits > 0
    /\ FLess(result.current_gpa, result.gpa_after_retaking_failed)
    /\ delta.mag # Zero

=============================================================================
